---- MODULE Spec2Model ----
(***************************************************************************)
(* A model of pymatgen/entries/computed_entries.py: the ComputedEntry and  *)
(* ComputedStructureEntry objects, their dict records (to_dict/from_dict)  *)
(* and the JSON collection codec (computed_entries_to_json / _from_json).  *)
(*                                                                         *)
(* Python objects that are shared by reference (the parameters and data    *)
(* dicts of an entry) live in a heap, dicts; an entry holds their          *)
(* addresses.  Energies are floats in the source; the model counts them in *)
(* tenths (-10.0 is -100, -0.5 is -5), where float addition is exact.      *)
(***************************************************************************)
EXTENDS Integers, Sequences, FiniteSets, TLC

VARIABLES
    entries,    \* the entry objects alive, by identity (index = object id)
    dicts,      \* the heap of parameters/data dict objects (index = address)
    supplied,   \* history: the energy argument each entry was created with
    defaulted,  \* history: the fields each entry was created without
                \* (argument omitted, None, absent from the record, or empty)
    log         \* the caller's last call: operation, arguments, outcome

vars == <<entries, dicts, supplied, defaulted, log>>

(***************************************************************************)
(* Bounds of the model.                                                    *)
(***************************************************************************)
MaxEntries == 2
MaxLen == 2

(***************************************************************************)
(* Python values.  Every value carries its type in t, so that values of    *)
(* different types can meet in one dict.  A dict is a set of <<key, value>>*)
(* pairs with distinct keys.                                               *)
(***************************************************************************)
Num(n) == [t |-> "num", v |-> n]
Str(s) == [t |-> "str", v |-> s]
Bool(b) == [t |-> "bool", v |-> b]
NoneV == [t |-> "none", v |-> 0]
\* an argument the caller did not pass
Omitted == [t |-> "omitted", v |-> 0]
\* a dict object nobody else holds a reference to (a literal, a parsed object)
Dict(m) == [t |-> "dict", v |-> m]
\* a reference to the dict object at address a of the heap
Ref(a) == [t |-> "ref", v |-> a]
List(s) == [t |-> "list", v |-> s]

HasKey(m, k) == \E p \in m : p[1] = k
Get(m, k) == (CHOOSE p \in m : p[1] = k)[2]
SetItem(m, k, x) == {p \in m : p[1] # k} \cup {<<k, x>>}
DelItem(m, k) == {p \in m : p[1] # k}
\* d.get(k, default)
DictGet(m, k, default) == IF HasKey(m, k) THEN Get(m, k) ELSE default

\* The content of a dict value, whether it is held by reference or not.
Content(heap, x) == IF x.t = "ref" THEN heap[x.v] ELSE x.v

\* Python's truth value of a parameters/data argument: None and {} are false.
Truthy(heap, x) ==
    CASE x.t = "none" -> FALSE
      [] x.t = "dict" -> x.v # {}
      [] x.t = "ref" -> heap[x.v] # {}

(***************************************************************************)
(* The collaborators pymatgen.core.structure.Composition / Structure and   *)
(* pymatgen.phasediagram.entries.PDEntry, modelled from their description: *)
(* value types with a dict form, and a base entry holding a composition    *)
(* and an energy.                                                          *)
(***************************************************************************)
\* Composition(x): from a {symbol: amount} dict or an existing Composition
Composition(x) ==
    IF x.t = "Composition" THEN x ELSE [t |-> "Composition", v |-> x.v]

Composition_to_dict(c) == Dict(c.v)

Structure_composition(s) == [t |-> "Composition", v |-> s.v.species]

Structure_to_dict(s) ==
    Dict({<<"lattice", s.v.lattice>>, <<"species", s.v.species>>})

Structure_from_dict(x) ==
    [t |-> "Structure",
     v |-> [lattice |-> Get(x.v, "lattice"), species |-> Get(x.v, "species")]]

PDEntry_init(comp, e) == [composition |-> comp, energy |-> e]

PDEntry_energy(self) == self.pd_energy

(***************************************************************************)
(* ComputedEntry                                                           *)
(***************************************************************************)
ModuleName == "pymatgen.entries.computed_entries"

CE_DefaultCorrection == Num(0)
CSE_DefaultCorrection == Num(0)

\* "x if x else {}": the argument itself when it is true, else a new dict.
\* Returns the address the field holds and the heap after the allocation.
OrEmpty_IsNotNone(heap, x) ==
    IF x.t = "ref" THEN [addr |-> x.v, heap |-> heap]
    ELSE [addr |-> Len(heap) + 1,
          heap |-> Append(heap, IF x.t = "dict" THEN x.v ELSE {})]

OrEmpty_Unchecked(heap, x) ==
    IF x.t = "ref" THEN [addr |-> x.v, heap |-> heap]
    ELSE IF x.t = "dict" THEN [addr |-> Len(heap) + 1, heap |-> Append(heap, x.v)]
    ELSE [addr |-> 0, heap |-> heap]

OrEmpty(heap, x) ==
    IF Truthy(heap, x)
    THEN IF x.t = "ref"
         THEN [addr |-> x.v, heap |-> heap]
         ELSE [addr |-> Len(heap) + 1, heap |-> Append(heap, x.v)]
    ELSE [addr |-> Len(heap) + 1, heap |-> Append(heap, {})]

ComputedEntry_init_DropsCorrection(heap, composition, e, correction, parameters, data) ==
    LET comp == Composition(composition)
        base == PDEntry_init(comp, e.v)
        p == OrEmpty(heap, IF parameters.t = "omitted" THEN NoneV ELSE parameters)
        d == OrEmpty(p.heap, IF data.t = "omitted" THEN NoneV ELSE data)
    IN  [entry |-> [class |-> "ComputedEntry",
                    composition |-> base.composition,
                    pd_energy |-> base.energy,
                    correction |-> CE_DefaultCorrection.v,
                    parameters |-> p.addr,
                    data |-> d.addr,
                    structure |-> NoneV],
         heap |-> d.heap]

ComputedEntry_init(heap, composition, e, correction, parameters, data) ==
    LET comp == Composition(composition)
        base == PDEntry_init(comp, e.v)
        corr == IF correction.t = "omitted" THEN CE_DefaultCorrection
                ELSE correction
        p == OrEmpty(heap, IF parameters.t = "omitted" THEN NoneV ELSE parameters)
        d == OrEmpty(p.heap, IF data.t = "omitted" THEN NoneV ELSE data)
    IN  [entry |-> [class |-> "ComputedEntry",
                    composition |-> base.composition,
                    pd_energy |-> base.energy,
                    correction |-> corr.v,
                    parameters |-> p.addr,
                    data |-> d.addr,
                    structure |-> NoneV],
         heap |-> d.heap]

uncorrected_energy(self) == PDEntry_energy(self)

energy_Uncorrected(self) == PDEntry_energy(self)

energy(self) == uncorrected_energy(self) + self.correction

ComputedEntry_to_dict_Corrected(self) ==
    Dict({<<"module", Str(ModuleName)>>,
          <<"class", Str(self.class)>>,
          <<"energy", Num(energy(self))>>,
          <<"composition", Composition_to_dict(self.composition)>>,
          <<"correction", Num(self.correction)>>,
          <<"parameters", Ref(self.parameters)>>,
          <<"data", Ref(self.data)>>})

ComputedEntry_to_dict(self) ==
    Dict({<<"module", Str(ModuleName)>>,
          <<"class", Str(self.class)>>,
          <<"energy", Num(uncorrected_energy(self))>>,
          <<"composition", Composition_to_dict(self.composition)>>,
          <<"correction", Num(self.correction)>>,
          <<"parameters", Ref(self.parameters)>>,
          <<"data", Ref(self.data)>>})

\* What a raised exception leaves behind: no object, the heap as it was.
Raise(heap, exc) == [status |-> exc, entry |-> NoneV, heap |-> heap]
Return(r) == [status |-> "ok", entry |-> r.entry, heap |-> r.heap]

ComputedEntry_from_dict_DefaultsCorrection(heap, d) ==
    IF d.t # "dict" THEN Raise(heap, "TypeError")
    ELSE IF \E k \in {"composition", "energy"} : ~HasKey(d.v, k)
    THEN Raise(heap, "KeyError")
    ELSE Return(ComputedEntry_init(heap,
                    Get(d.v, "composition"), Get(d.v, "energy"),
                    DictGet(d.v, "correction", Omitted),
                    DictGet(d.v, "parameters", Dict({})),
                    DictGet(d.v, "data", Dict({}))))

\* d['composition'], d['energy'], d['correction'] raise KeyError when the key
\* is absent, and TypeError when d is no dict (a str, a number, a list).
ComputedEntry_from_dict(heap, d) ==
    IF d.t # "dict" THEN Raise(heap, "TypeError")
    ELSE IF \E k \in {"composition", "energy", "correction"} : ~HasKey(d.v, k)
    THEN Raise(heap, "KeyError")
    ELSE Return(ComputedEntry_init(heap,
                    Get(d.v, "composition"), Get(d.v, "energy"),
                    Get(d.v, "correction"),
                    DictGet(d.v, "parameters", Dict({})),
                    DictGet(d.v, "data", Dict({}))))

(***************************************************************************)
(* ComputedStructureEntry                                                  *)
(***************************************************************************)
ComputedStructureEntry_init(heap, structure, e, correction, parameters, data) ==
    LET corr == IF correction.t = "omitted" THEN CSE_DefaultCorrection
                ELSE correction
        p == IF parameters.t = "omitted" THEN NoneV ELSE parameters
        d == IF data.t = "omitted" THEN NoneV ELSE data
        r == ComputedEntry_init(heap, Structure_composition(structure), e,
                                corr, p, d)
    IN  [entry |-> [r.entry EXCEPT !.class = "ComputedStructureEntry",
                                   !.structure = structure],
         heap |-> r.heap]

ComputedStructureEntry_to_dict(self) ==
    LET d == ComputedEntry_to_dict(self).v
        d1 == SetItem(d, "module", Str(ModuleName))
        d2 == SetItem(d1, "class", Str(self.class))
    IN  Dict(SetItem(d2, "structure", Structure_to_dict(self.structure)))

ComputedStructureEntry_from_dict_ReadsComposition(heap, d) ==
    IF d.t # "dict" THEN Raise(heap, "TypeError")
    ELSE IF \E k \in {"structure", "energy", "correction"} : ~HasKey(d.v, k)
    THEN Raise(heap, "KeyError")
    ELSE LET r == ComputedStructureEntry_init(heap,
                    Structure_from_dict(Get(d.v, "structure")),
                    Get(d.v, "energy"), Get(d.v, "correction"),
                    DictGet(d.v, "parameters", Dict({})),
                    DictGet(d.v, "data", Dict({})))
         IN  Return([r EXCEPT !.entry.composition =
                        IF HasKey(d.v, "composition")
                        THEN Composition(Get(d.v, "composition")) ELSE @])

ComputedStructureEntry_from_dict(heap, d) ==
    IF d.t # "dict" THEN Raise(heap, "TypeError")
    ELSE IF \E k \in {"structure", "energy", "correction"} : ~HasKey(d.v, k)
    THEN Raise(heap, "KeyError")
    ELSE Return(ComputedStructureEntry_init(heap,
                    Structure_from_dict(Get(d.v, "structure")),
                    Get(d.v, "energy"), Get(d.v, "correction"),
                    DictGet(d.v, "parameters", Dict({})),
                    DictGet(d.v, "data", Dict({}))))

\* entry.to_dict: the property of the entry's own class
to_dict(self) ==
    IF self.class = "ComputedStructureEntry"
    THEN ComputedStructureEntry_to_dict(self)
    ELSE ComputedEntry_to_dict(self)

(***************************************************************************)
(* The json library, as far as the codec uses it.  A JSON text is modelled *)
(* by whether it parses and by the document it parses to.  json.dumps      *)
(* writes the content of every dict it meets, whoever else refers to it;   *)
(* json.loads builds new objects that nothing else refers to.  The values  *)
(* inside a composition, a structure, parameters or data are JSON scalars  *)
(* and nested objects on both sides.                                       *)
(***************************************************************************)
Obj(m) == [t |-> "obj", v |-> m]
Arr(s) == [t |-> "arr", v |-> s]
Null == [t |-> "null", v |-> 0]
Text(doc) == [valid |-> TRUE, doc |-> doc]
Malformed == [valid |-> FALSE, doc |-> Null]

DumpField(heap, x) ==
    CASE x.t \in {"ref", "dict"} -> Obj(Content(heap, x))
      [] x.t = "none" -> Null
      [] OTHER -> x

DumpRecord(heap, d) == Obj({<<p[1], DumpField(heap, p[2])>> : p \in d.v})

json_dumps(heap, jsonlist) ==
    Text(Arr([i \in 1..Len(jsonlist) |-> DumpRecord(heap, jsonlist[i])]))

LoadField(x) ==
    CASE x.t = "obj" -> Dict(x.v)
      [] x.t = "arr" -> List(x.v)
      [] x.t = "null" -> NoneV
      [] OTHER -> x

LoadElement(x) ==
    IF x.t = "obj" THEN Dict({<<p[1], LoadField(p[2])>> : p \in x.v})
    ELSE LoadField(x)

json_loads(jsonstr) ==
    IF ~jsonstr.valid THEN [status |-> "ValueError", value |-> NoneV]
    ELSE [status |-> "ok",
          value |-> IF jsonstr.doc.t = "arr"
                    THEN List([i \in 1..Len(jsonstr.doc.v) |->
                                    LoadElement(jsonstr.doc.v[i])])
                    ELSE LoadElement(jsonstr.doc)]

\* The characters of the strings the model's documents hold.
Chars(s) ==
    CASE s = "" -> <<>>
      [] s = "ab" -> <<"a", "b">>
      [] OTHER -> <<s>>

\* Some enumeration of a finite set: the order a dict yields its keys in.
RECURSIVE SetToSeq(_)
SetToSeq(S) ==
    IF S = {} THEN <<>>
    ELSE LET x == CHOOSE y \in S : TRUE IN <<x>> \o SetToSeq(S \ {x})

\* "for d in json_list": a list yields its elements, a dict its keys, a str
\* its characters; a number, a bool or None is not iterable.
Iterate(x) ==
    CASE x.t = "list" -> [status |-> "ok", items |-> x.v]
      [] x.t = "dict" ->
            [status |-> "ok",
             items |-> LET ks == SetToSeq({p[1] : p \in x.v})
                       IN  [i \in 1..Len(ks) |-> Str(ks[i])]]
      [] x.t = "str" ->
            [status |-> "ok",
             items |-> LET cs == Chars(x.v)
                       IN  [i \in 1..Len(cs) |-> Str(cs[i])]]
      [] OTHER -> [status |-> "TypeError", items |-> <<>>]

\* "'structure' in d": a key of a dict, a substring of a str (of the strings
\* the model holds only "structure" itself has it), an element of a list;
\* any other d raises TypeError.
InRaises(d) == d.t \notin {"dict", "str", "list"}
StructureIn(d) ==
    CASE d.t = "dict" -> HasKey(d.v, "structure")
      [] d.t = "str" -> d.v = "structure"
      [] d.t = "list" ->
            \E i \in 1..Len(d.v) : d.v[i].t = "str" /\ d.v[i].v = "structure"

(***************************************************************************)
(* The collection codec                                                    *)
(***************************************************************************)
computed_entries_to_json_Distinct(heap, es) ==
    json_dumps(heap,
        LET keep == SelectSeq([i \in 1..Len(es) |-> i],
                        LAMBDA i : \A j \in 1..(i - 1) : es[j] # es[i])
        IN  [i \in 1..Len(keep) |-> to_dict(es[keep[i]])])

computed_entries_to_json(heap, es) ==
    json_dumps(heap, [i \in 1..Len(es) |-> to_dict(es[i])])

\* The body of the loop: the entry one element of json_list decodes to.
DecodeElement_ByClass(heap, d) ==
    IF InRaises(d) THEN Raise(heap, "TypeError")
    ELSE IF d.t = "dict" /\ HasKey(d.v, "class")
            /\ Get(d.v, "class") = Str("ComputedStructureEntry")
    THEN ComputedStructureEntry_from_dict(heap, d)
    ELSE ComputedEntry_from_dict(heap, d)

DecodeElement(heap, d) ==
    IF InRaises(d) THEN Raise(heap, "TypeError")
    ELSE IF StructureIn(d)
    THEN ComputedStructureEntry_from_dict(heap, d)
    ELSE ComputedEntry_from_dict(heap, d)

\* The loop: acc is the objects built so far, or the exception that ended it.
RECURSIVE DecodeLoop(_, _, _)
DecodeLoop(json_list, i, acc) ==
    IF i > Len(json_list) \/ acc.status # "ok" THEN acc
    ELSE LET r == DecodeElement(acc.heap, json_list[i])
         IN  DecodeLoop(json_list, i + 1,
                [status |-> r.status,
                 entries |-> IF r.status = "ok"
                             THEN Append(acc.entries, r.entry)
                             ELSE acc.entries,
                 heap |-> r.heap,
                 ret |-> IF r.status = "ok"
                         THEN Append(acc.ret, Len(acc.entries) + 1)
                         ELSE acc.ret])

\* Returns the ids of the entries built, in ret.  An exception leaves the
\* caller with nothing: what the loop had built is unreachable.
computed_entries_from_json(ents, heap, jsonstr) ==
    LET failed(exc) ==
            [status |-> exc, entries |-> ents, heap |-> heap, ret |-> <<>>]
        loaded == json_loads(jsonstr)
        it == Iterate(loaded.value)
        done == DecodeLoop(it.items, 1,
                    [status |-> "ok", entries |-> ents, heap |-> heap,
                     ret |-> <<>>])
    IN  IF loaded.status # "ok" THEN failed(loaded.status)
        ELSE IF it.status # "ok" THEN failed(it.status)
        ELSE IF done.status # "ok" THEN failed(done.status)
        ELSE done

(***************************************************************************)
(* The initial state and the operations                                    *)
(***************************************************************************)
Fields == {"parameters", "data"}

\* The fields an entry gets no mapping for: the argument is omitted, None or
\* an empty dict.
Falsy(heap, x) == x.t = "omitted" \/ ~Truthy(heap, x)

Init ==
    /\ entries = <<>>
    /\ dicts = <<>>
    /\ supplied = <<>>
    /\ defaulted = <<>>
    /\ log = [op |-> "none"]

Created(r, e, parameters, data, call) ==
    /\ entries' = Append(entries, r.entry)
    /\ dicts' = r.heap
    /\ supplied' = Append(supplied, e.v)
    /\ defaulted' = Append(defaulted,
            {f \in Fields :
                Falsy(dicts, IF f = "parameters" THEN parameters ELSE data)})
    /\ log' = call

\* ComputedEntry(composition, energy, correction, parameters, data)
ConstructEntry(composition, e, correction, parameters, data) ==
    Created(ComputedEntry_init(dicts, composition, e, correction,
                               parameters, data),
            e, parameters, data,
            [op |-> "Construct", cls |-> "ComputedEntry", src |-> composition,
             energy |-> e, correction |-> correction,
             parameters |-> parameters, data |-> data,
             status |-> "ok", ret |-> Len(entries) + 1])

\* ComputedStructureEntry(structure, energy, correction, parameters, data)
ConstructStructureEntry(structure, e, correction, parameters, data) ==
    Created(ComputedStructureEntry_init(dicts, structure, e, correction,
                                        parameters, data),
            e, parameters, data,
            [op |-> "Construct", cls |-> "ComputedStructureEntry",
             src |-> structure,
             energy |-> e, correction |-> correction,
             parameters |-> parameters, data |-> data,
             status |-> "ok", ret |-> Len(entries) + 1])

\* cls.from_dict(d), d a record the caller holds
FromDict(cls, d) ==
    LET r == IF cls = "ComputedStructureEntry"
             THEN ComputedStructureEntry_from_dict(dicts, d)
             ELSE ComputedEntry_from_dict(dicts, d)
        call == [op |-> "from_dict", cls |-> cls, d |-> d,
                 status |-> r.status,
                 ret |-> IF r.status = "ok" THEN Len(entries) + 1 ELSE 0]
    IN  IF r.status = "ok"
        THEN Created(r, Get(d.v, "energy"),
                     DictGet(d.v, "parameters", Omitted),
                     DictGet(d.v, "data", Omitted), call)
        ELSE /\ log' = call
             /\ UNCHANGED <<entries, dicts, supplied, defaulted>>

\* entry.correction = c
SetCorrection(i, c) ==
    /\ entries' = [entries EXCEPT ![i].correction = c]
    /\ log' = [op |-> "set_correction", id |-> i, value |-> c]
    /\ UNCHANGED <<dicts, supplied, defaulted>>

\* entry.parameters[k] = x, entry.data[k] = x
SetMappingItem(i, f, k, x) ==
    /\ dicts' = [dicts EXCEPT ![entries[i][f]] = SetItem(@, k, x)]
    /\ log' = [op |-> "setitem", key |-> k, value |-> x]
    /\ UNCHANGED <<entries, supplied, defaulted>>

\* del entry.parameters[k], del entry.data[k]
DelMappingItem(i, f, k) ==
    /\ HasKey(dicts[entries[i][f]], k)
    /\ dicts' = [dicts EXCEPT ![entries[i][f]] = DelItem(@, k)]
    /\ log' = [op |-> "delitem", key |-> k]
    /\ UNCHANGED <<entries, supplied, defaulted>>

\* computed_entries_to_json([entries[s[1]], ..., entries[s[n]]])
Encode(s) ==
    /\ log' = [op |-> "encode", src |-> s,
               ret |-> computed_entries_to_json(dicts,
                            [i \in 1..Len(s) |-> entries[s[i]]])]
    /\ UNCHANGED <<entries, dicts, supplied, defaulted>>

\* computed_entries_from_json(jsonstr)
Decode(jsonstr) ==
    LET r == computed_entries_from_json(entries, dicts, jsonstr)
        n == Len(r.ret)
        items == Iterate(json_loads(jsonstr).value).items
    IN  /\ entries' = r.entries
        /\ dicts' = r.heap
        /\ supplied' = supplied \o
                [i \in 1..n |-> Get(items[i].v, "energy").v]
        /\ defaulted' = defaulted \o
                [i \in 1..n |->
                    {f \in Fields : Falsy(dicts, DictGet(items[i].v, f, Omitted))}]
        /\ log' = [op |-> "decode", text |-> jsonstr, status |-> r.status,
                   ret |-> r.ret]

(***************************************************************************)
(* The values the caller draws its arguments from.                         *)
(***************************************************************************)
Fe2O3 == {<<"Fe", 2>>, <<"O", 3>>}
Li2O == {<<"Li", 2>>, <<"O", 1>>}

\* the same composition as a {symbol: amount} dict and as a Composition
CompositionInputs == {Dict(Fe2O3), Composition(Dict(Fe2O3))}
Hematite == [t |-> "Structure", v |-> [lattice |-> "hexagonal", species |-> Fe2O3]]
Lithia == [t |-> "Structure", v |-> [lattice |-> "cubic", species |-> Li2O]]
Structures == {Hematite, Lithia}
Energies == {Num(-100), Num(25)}
Corrections == {Omitted, Num(-5)}
NewCorrections == {-15, 0}
Classes == {"ComputedEntry", "ComputedStructureEntry"}
\* <<parameters, data>>
MappingArgs ==
    {<<Omitted, NoneV>>,
     <<Dict({<<"kpoints", 4>>}), Dict({<<"oxide", 1>>})>>}

\* The records a caller hands to from_dict under Spec: the record of entry
\* i, and that record with the other composition in its composition field.
RecordsFrom(i) ==
    LET d == to_dict(entries[i]).v
    IN  {Dict(d)}
        \cup {Dict(SetItem(d, "composition", c)) : c \in {Dict(Fe2O3), Dict(Li2O)}}

(***************************************************************************)
(* Spec: entries are constructed, their correction is changed, and they    *)
(* are rebuilt from records.                                               *)
(***************************************************************************)
Next ==
    \/ /\ Len(entries) < MaxEntries
       /\ \E c \in CompositionInputs, e \in Energies, k \in Corrections,
             m \in MappingArgs :
                ConstructEntry(c, e, k, m[1], m[2])
    \/ /\ Len(entries) < MaxEntries
       /\ \E s \in Structures, e \in Energies, k \in Corrections,
             m \in MappingArgs :
                ConstructStructureEntry(s, e, k, m[1], m[2])
    \/ \E i \in 1..Len(entries), c \in NewCorrections : SetCorrection(i, c)
    \/ /\ Len(entries) < MaxEntries
       /\ \E i \in 1..Len(entries), cls \in Classes :
            \E d \in RecordsFrom(i) : FromDict(cls, d)

Spec == Init /\ [][Next]_vars

(***************************************************************************)
(* SpecMaps: the parameters and data mappings.  The caller passes nothing, *)
(* None, a dict literal or a dict another entry already holds, and changes *)
(* the mappings of the entries afterwards.                                 *)
(***************************************************************************)
MapKeys == {"kpoints"}
MapValues == {4}
\* <<parameters, data>>: nothing, None, a dict literal, or a dict an entry
\* already holds (Ref), for one of the two
MapArgPairs ==
    {<<Omitted, Omitted>>, <<NoneV, NoneV>>, <<Dict({}), Omitted>>,
     <<Dict({<<"kpoints", 4>>}), NoneV>>}
        \cup {<<Ref(a), Omitted>> : a \in 1..Len(dicts)}
        \cup {<<NoneV, Ref(a)>> : a \in 1..Len(dicts)}

WithOptional(m, k, x) == IF x.t = "omitted" THEN m ELSE SetItem(m, k, x)

\* Records with and without the parameters and data keys (Omitted: no key).
MapRecords ==
    LET base == {<<"composition", Dict(Fe2O3)>>,
                 <<"structure", Structure_to_dict(Lithia)>>,
                 <<"energy", Num(-100)>>, <<"correction", Num(-5)>>}
    IN  {Dict(WithOptional(WithOptional(base, "parameters", m[1]), "data", m[2])) :
            m \in MapArgPairs}

NextMaps ==
    \/ /\ Len(entries) < MaxEntries
       /\ \E m \in MapArgPairs :
            ConstructEntry(Dict(Fe2O3), Num(-100), Omitted, m[1], m[2])
    \/ /\ Len(entries) < MaxEntries
       /\ \E m \in MapArgPairs :
            ConstructStructureEntry(Lithia, Num(-100), Omitted, m[1], m[2])
    \/ /\ Len(entries) < MaxEntries
       /\ \E cls \in Classes, d \in MapRecords : FromDict(cls, d)
    \/ \E i \in 1..Len(entries), f \in Fields, k \in MapKeys, x \in MapValues :
            SetMappingItem(i, f, k, x)
    \/ \E i \in 1..Len(entries), f \in Fields, k \in MapKeys :
            DelMappingItem(i, f, k)

SpecMaps == Init /\ [][NextMaps]_vars

(***************************************************************************)
(* SpecCodec: up to MaxLen entries are constructed; the caller encodes     *)
(* lists of them, decodes what it encoded, and decodes and rebuilds from   *)
(* documents and records of its own.                                       *)
(***************************************************************************)
SeqsUpTo(S, n) == UNION {[1..k -> S] : k \in 0..n}

\* A record with every key; its composition is not its structure's.
JsonRecord(cls) ==
    {<<"module", Str(ModuleName)>>, <<"class", Str(cls)>>,
     <<"energy", Num(-100)>>, <<"composition", Obj(Fe2O3)>>,
     <<"correction", Num(-5)>>,
     <<"parameters", Obj({<<"kpoints", 4>>})>>, <<"data", Obj({})>>,
     <<"structure", Obj(Structure_to_dict(Lithia).v)>>}

Without(m, ks) == {p \in m : p[1] \notin ks}

\* JSON objects: records whose class field disagrees with their keys, and
\* records that lack a key.
SampleRecords ==
    {Obj(JsonRecord("ComputedEntry")),
     Obj(Without(JsonRecord("ComputedStructureEntry"), {"structure"})),
     Obj(Without(JsonRecord("ComputedStructureEntry"), {"composition", "parameters", "data"})),
     Obj(Without(JsonRecord("ComputedStructureEntry"), {"energy"})),
     Obj(Without(JsonRecord("ComputedEntry"), {"structure", "correction"})),
     Obj(Without(JsonRecord("ComputedEntry"), {"structure", "composition"}))}

\* Arrays of records, and texts that are no array of objects.
ArrayTexts == {Text(Arr(s)) : s \in SeqsUpTo(SampleRecords, MaxLen)}
OtherTexts ==
    {Malformed, Text(Obj({})), Text(Str("")), Text(Str("ab")), Text(Num(5)),
     Text(Bool(TRUE)), Text(Null), Text(Obj(JsonRecord("ComputedEntry"))),
     Text(Arr(<<Num(5)>>))}

Texts == ArrayTexts \cup OtherTexts

NextCodec ==
    \/ /\ Len(entries) < MaxLen
       /\ \E m \in MappingArgs :
            ConstructEntry(Dict(Fe2O3), Num(-100), Num(-5), m[1], m[2])
    \/ /\ Len(entries) < MaxLen
       /\ \E m \in MappingArgs :
            ConstructStructureEntry(Lithia, Num(25), Omitted, m[1], m[2])
    \/ /\ Len(entries) <= MaxLen
       /\ \E s \in SeqsUpTo(1..Len(entries), MaxLen) : Encode(s)
    \/ /\ Len(entries) <= MaxLen
       /\ log.op = "encode"
       /\ Decode(log.ret)
    \/ /\ entries = <<>>
       /\ \E jsonstr \in Texts : Decode(jsonstr)
    \/ /\ Len(entries) < MaxLen
       /\ \E cls \in Classes, d \in SampleRecords : FromDict(cls, LoadElement(d))

SpecCodec == Init /\ [][NextCodec]_vars

(***************************************************************************)
(* Properties                                                              *)
(***************************************************************************)
Ids == 1..Len(entries)
IsCall(op) == log.op = op /\ log.status = "ok"

\* C1: an entry rebuilt by its own class's from_dict from its own to_dict
\* record has the same class, composition, uncorrected energy, correction,
\* parameters and data, and (for a ComputedStructureEntry) the same structure.
C1_RoundTrip ==
    log.op = "from_dict" =>
        \A i \in Ids :
            (log.d = to_dict(entries[i]) /\ log.cls = entries[i].class) =>
                /\ log.status = "ok"
                /\ LET a == entries[i]
                       b == entries[log.ret]
                   IN  /\ b.class = a.class
                       /\ b.composition = a.composition
                       /\ uncorrected_energy(b) = uncorrected_energy(a)
                       /\ b.correction = a.correction
                       /\ dicts[b.parameters] = dicts[a.parameters]
                       /\ dicts[b.data] = dicts[a.data]
                       /\ b.structure = a.structure

\* A ComputedStructureEntry with a correction and data has been rebuilt from
\* its record.
C1_Witness ==
    /\ IsCall("from_dict")
    /\ log.cls = "ComputedStructureEntry"
    /\ \E i \in Ids \ {log.ret} :
            /\ log.d = to_dict(entries[i])
            /\ entries[i].class = "ComputedStructureEntry"
            /\ entries[i].correction # 0
            /\ dicts[entries[i].data] # {}

\* C2: reading energy gives the energy supplied at construction plus the
\* correction the entry holds now (the one the caller set last), and reading
\* uncorrected_energy gives the energy supplied at construction.
C2_EnergyNeverStale ==
    /\ \A i \in Ids :
            /\ energy(entries[i]) = supplied[i] + entries[i].correction
            /\ uncorrected_energy(entries[i]) = supplied[i]
    /\ log.op = "set_correction" =>
            /\ energy(entries[log.id]) = supplied[log.id] + log.value
            /\ uncorrected_energy(entries[log.id]) = supplied[log.id]

\* The caller has just set the correction of an entry built with energy -10.0
\* to -1.5, and energy reads -11.5.
C2_Witness ==
    /\ log.op = "set_correction"
    /\ log.value = -15
    /\ supplied[log.id] = -100
    /\ energy(entries[log.id]) = -115

\* C3: the energy field of an entry's record is the energy the entry was
\* created with, not the corrected one, its correction field is the entry's
\* current correction, and an entry rebuilt from the record reports the same
\* corrected energy.
C3_RecordKeepsRawEnergy ==
    /\ \A i \in Ids :
            LET d == to_dict(entries[i]).v
            IN  /\ Get(d, "energy") = Num(supplied[i])
                /\ Get(d, "correction") = Num(entries[i].correction)
    /\ IsCall("from_dict") =>
            \A i \in Ids :
                log.d = to_dict(entries[i]) =>
                    energy(entries[log.ret]) = energy(entries[i])

\* An entry whose correction was changed to -1.5 after construction has been
\* rebuilt from its record.
C3_Witness ==
    /\ IsCall("from_dict")
    /\ \E i \in Ids \ {log.ret} :
            /\ log.d = to_dict(entries[i])
            /\ entries[i].correction = -15
            /\ energy(entries[log.ret]) = supplied[i] - 15

\* C9: the composition of a ComputedStructureEntry is the composition of the
\* structure it holds, and one built by from_dict has the composition of the
\* record's structure, whatever the record's composition field says.
C9_CompositionFromStructure ==
    /\ \A i \in Ids :
            entries[i].class = "ComputedStructureEntry" =>
                entries[i].composition = Structure_composition(entries[i].structure)
    /\ (IsCall("from_dict") /\ log.cls = "ComputedStructureEntry") =>
            entries[log.ret].composition =
                Structure_composition(Structure_from_dict(Get(log.d.v, "structure")))

\* A ComputedStructureEntry has been built from a record whose composition
\* field disagrees with its structure.
C9_Witness ==
    /\ IsCall("from_dict")
    /\ log.cls = "ComputedStructureEntry"
    /\ Composition(Get(log.d.v, "composition")) # entries[log.ret].composition

\* The argument the last call gave for the field f: Omitted when the caller
\* passed none or the record has no such key.
ArgOf(f) ==
    IF log.op = "Construct" THEN log[f] ELSE DictGet(log.d.v, f, Omitted)

\* C6: the parameters and data of an entry are never null, and an entry just
\* built by a constructor or by from_dict without a field (argument omitted
\* or None, key absent or null) holds an empty mapping for it, which to_dict
\* emits as a present, non-null, empty object.
C6_DefaultMappings ==
    /\ \A i \in Ids, f \in Fields : entries[i][f] \in 1..Len(dicts)
    /\ (log.op \in {"Construct", "from_dict"} /\ log.status = "ok") =>
            \A f \in Fields :
                ArgOf(f).t \in {"omitted", "none"} =>
                    LET self == entries[log.ret]
                        d == to_dict(self)
                    IN  /\ dicts[self[f]] = {}
                        /\ HasKey(d.v, f)
                        /\ Get(d.v, f).t # "none"
                        /\ Content(dicts, Get(d.v, f)) = {}
                        /\ Get(DumpRecord(dicts, d).v, f) = Obj({})

\* A ComputedStructureEntry has been built by from_dict from a record with
\* neither a parameters nor a data key, after an entry was constructed with
\* parameters=None.
C6_Witness ==
    /\ IsCall("from_dict")
    /\ log.cls = "ComputedStructureEntry"
    /\ ~HasKey(log.d.v, "parameters")
    /\ ~HasKey(log.d.v, "data")
    /\ dicts[entries[log.ret].parameters] = {}
    /\ \E i \in Ids \ {log.ret} : "parameters" \in defaulted[i]

\* C10: a step that changes the mapping an entry got for a field it was
\* created without (None, omitted, absent or empty) changes the mapping of no
\* other such field of any entry, and an entry created in a step holds empty
\* mappings for the fields it is created without.
C10_DefaultsNotShared ==
    [][/\ \A i \in Ids : \A f \in defaulted[i] :
            dicts'[entries'[i][f]] # dicts[entries[i][f]] =>
                \A j \in Ids : \A g \in defaulted[j] :
                    <<j, g>> # <<i, f>> =>
                        dicts'[entries'[j][g]] = dicts[entries[j][g]]
       /\ \A j \in (1..Len(entries')) \ Ids : \A f \in defaulted'[j] :
            dicts'[entries'[j][f]] = {}]_vars

\* Two entries were created without parameters; the caller has set a key in
\* the parameters of the first, and the parameters of the second are empty.
C10_Witness ==
    /\ log.op = "setitem"
    /\ \E i \in Ids, j \in Ids :
            /\ i < j
            /\ "parameters" \in defaulted[i]
            /\ "parameters" \in defaulted[j]
            /\ dicts[entries[i].parameters] # {}
            /\ dicts[entries[j].parameters] = {}

\* The exceptions the source raises where the specification names an error:
\* a missing key is Python's KeyError; a text that cannot be taken as an array
\* ends in json.loads' ValueError or, past the parser, in a TypeError.
MissingFieldError == "KeyError"
ParseError == {"ValueError", "TypeError"}

\* b has the fields of a: what rebuilding a from its record gives.
Image(a, b) ==
    /\ b.class = a.class
    /\ b.composition = a.composition
    /\ uncorrected_energy(b) = uncorrected_energy(a)
    /\ b.correction = a.correction
    /\ dicts[b.parameters] = dicts[a.parameters]
    /\ dicts[b.data] = dicts[a.data]
    /\ b.structure = a.structure

\* The entries that existed before the last call returned the ids log.ret.
Before == 1..(Len(entries) - Len(log.ret))

\* C4: decoding the encoding of a list of n entries (n >= 0, any kinds,
\* repetitions allowed) succeeds with exactly n entries, the k-th of which has
\* the fields of the k-th entry of the list.
C4_OrderPreserved ==
    log.op = "decode" =>
        \A s \in SeqsUpTo(Before, MaxLen) :
            log.text = computed_entries_to_json(dicts,
                            [k \in 1..Len(s) |-> entries[s[k]]]) =>
                /\ log.status = "ok"
                /\ Len(log.ret) = Len(s)
                /\ \A k \in 1..Len(s) :
                        Image(entries[s[k]], entries[log.ret[k]])

\* The encoding of a ComputedStructureEntry followed by a ComputedEntry has
\* been decoded.
C4_Witness ==
    /\ IsCall("decode")
    /\ Len(log.ret) = 2
    /\ \E s \in SeqsUpTo(Before, MaxLen) :
            /\ log.text = computed_entries_to_json(dicts,
                            [k \in 1..Len(s) |-> entries[s[k]]])
            /\ Len(s) = 2
            /\ s[1] > s[2]
            /\ entries[s[1]].class = "ComputedStructureEntry"
            /\ entries[s[2]].class = "ComputedEntry"

\* C5: decoding an array succeeds with one entry per element, and the k-th
\* entry is a ComputedStructureEntry exactly when the k-th element has a
\* structure key, and a ComputedEntry otherwise.
C5_DispatchOnStructureKey ==
    (IsCall("decode") /\ log.text.doc.t = "arr") =>
        /\ Len(log.ret) = Len(log.text.doc.v)
        /\ \A k \in 1..Len(log.ret) :
                entries[log.ret[k]].class =
                    IF HasKey(log.text.doc.v[k].v, "structure")
                    THEN "ComputedStructureEntry" ELSE "ComputedEntry"

\* An array has been decoded whose first element has a structure key and the
\* class field ComputedEntry, and whose second has no structure key and the
\* class field ComputedStructureEntry.
C5_Witness ==
    /\ IsCall("decode")
    /\ log.text.doc.t = "arr"
    /\ Len(log.ret) = 2
    /\ HasKey(log.text.doc.v[1].v, "structure")
    /\ Get(log.text.doc.v[1].v, "class") = Str("ComputedEntry")
    /\ ~HasKey(log.text.doc.v[2].v, "structure")
    /\ Get(log.text.doc.v[2].v, "class") = Str("ComputedStructureEntry")
    /\ entries[log.ret[1]].class = "ComputedStructureEntry"
    /\ entries[log.ret[2]].class = "ComputedEntry"

\* The keys from_dict reads without a default.
Required(cls) ==
    IF cls = "ComputedStructureEntry"
    THEN {"structure", "energy", "correction"}
    ELSE {"composition", "energy", "correction"}
Lacks(m, cls) == \E k \in Required(cls) : ~HasKey(m, k)
\* An element of a document that lacks a key of the class decode picks for it.
ElementLacks(x) ==
    Lacks(x.v, IF HasKey(x.v, "structure") THEN "ComputedStructureEntry"
               ELSE "ComputedEntry")

\* C7: from_dict of either class on a record without one of the keys it
\* requires raises KeyError and builds nothing, and decoding an array of
\* objects with such an element raises KeyError, returns nothing and builds
\* nothing.
C7_MissingFieldFails ==
    [][/\ (log'.op = "from_dict" /\ log'.d.t = "dict"
                /\ Lacks(log'.d.v, log'.cls)) =>
            /\ log'.status = MissingFieldError
            /\ log'.ret = 0
            /\ entries' = entries /\ dicts' = dicts
       /\ (log'.op = "decode" /\ log'.text.valid /\ log'.text.doc.t = "arr"
                /\ (\A k \in 1..Len(log'.text.doc.v) : log'.text.doc.v[k].t = "obj")
                /\ (\E k \in 1..Len(log'.text.doc.v) : ElementLacks(log'.text.doc.v[k]))) =>
            /\ log'.status = MissingFieldError
            /\ log'.ret = <<>>
            /\ entries' = entries /\ dicts' = dicts]_vars

\* An array has been decoded whose first element is complete and whose second
\* lacks a required key: KeyError, and no entry.
C7_Witness ==
    /\ log.op = "decode"
    /\ log.status = MissingFieldError
    /\ log.text.doc.t = "arr"
    /\ Len(log.text.doc.v) = 2
    /\ ~ElementLacks(log.text.doc.v[1])
    /\ ElementLacks(log.text.doc.v[2])
    /\ entries = <<>>

\* C8: decoding a text that is not valid JSON, or whose top-level value is
\* not an array, fails with a ParseError and returns no entries.
C8_DecodeRejectsNonArray ==
    (log.op = "decode" /\ (~log.text.valid \/ log.text.doc.t # "arr")) =>
        /\ log.status \in ParseError
        /\ log.ret = <<>>

====
